---- MODULE Spec2Model ----
(***************************************************************************)
(* A state-machine model of src/main.py: the GraphSAINT training driver.   *)
(* The driver parses a configuration, selects a dataset and a sampler,     *)
(* builds the model and the optimizer, then runs `epochs` rounds of        *)
(* train / evaluate, accumulates four metric lists, reports the best       *)
(* epoch and writes the summary archive.                                   *)
(*                                                                         *)
(* The neural network, the samplers and sklearn's f1_score are external.   *)
(* The network is a deterministic function of its parameters (Forward);    *)
(* an optimizer step may write any parameter value.  Metric values are     *)
(* exact rationals <<num, den>>; floating-point rounding is not modelled.  *)
(* Loss values are not modelled, only the division that ends train_sample. *)
(***************************************************************************)
EXTENDS Integers, Sequences, FiniteSets, TLC

(* ---------------------------------------------------------------- bounds *)
\* largest configured epoch count explored
MaxEpochs == 2
\* largest number of batches one pass of the node sampler yields
MaxBatches == 2
\* num_steps of the random-walk sampler (batches per pass)
NumSteps == 5

(* ------------------------------------------------------------- rationals *)
RECURSIVE GCD(_, _)
GCD(a, b) == IF b = 0 THEN a ELSE GCD(b, a % b)

\* n/d in lowest terms, d > 0, n >= 0
Rat(n, d) == LET g == GCD(n, d) IN <<n \div g, d \div g>>

RAdd(p, q) == Rat(p[1] * q[2] + q[1] * p[2], p[2] * q[2])

RDivInt(p, k) == Rat(p[1], p[2] * k)

RLess(p, q) == p[1] * q[2] < q[1] * p[2]

RECURSIVE RSum(_)
RSum(s) == IF s = <<>> THEN <<0, 1>> ELSE RAdd(Head(s), RSum(Tail(s)))

\* np.mean of a non-empty 1-d array
NpMean(s) == RDivInt(RSum(s), Len(s))

\* ndarray.max()
RECURSIVE NpMax(_)
NpMax(s) == IF Len(s) = 1 THEN s[1]
            ELSE LET m == NpMax(Tail(s)) IN IF RLess(s[1], m) THEN m ELSE s[1]

\* ndarray.argmax(): the 0-based position of the first maximum
NpArgmaxFirstIndex(s) == CHOOSE i \in 1..Len(s) :
                            /\ s[i] = NpMax(s)
                            /\ \A j \in 1..(i - 1) : s[j] # NpMax(s)

NpArgmax(s) == NpArgmaxFirstIndex(s) - 1

(* ------------------------------------------------------ data and batches *)
Classes == {0, 1}

MaskNames == <<"train", "val", "test">>

\* the graphs a dataset directory may hold: per mask, the labels of its nodes
GraphAll == [train |-> <<0, 1>>, val |-> <<0, 1>>, test |-> <<0, 1>>]
GraphNoTest == [train |-> <<0, 1>>, val |-> <<0>>, test |-> <<>>]
Graphs == {GraphAll, GraphNoTest}

\* the subgraphs a sampler may yield
BatchA == [train |-> <<0>>, val |-> <<1>>, test |-> <<0, 1>>]
BatchB == [train |-> <<0, 1>>, val |-> <<0>>, test |-> <<1>>]
BatchC == [train |-> <<0>>, val |-> <<0>>, test |-> <<>>]
BatchUniverse == {BatchA, BatchB, BatchC}

IsSubSeq(s, t) == \E f \in [1..Len(s) -> 1..Len(t)] :
                     /\ \A i \in 1..Len(s) : s[i] = t[f[i]]
                     /\ \A i, j \in 1..Len(s) : i < j => f[i] < f[j]

\* a sampled batch is an induced subgraph of the loaded graph
BatchesOf(g) == {b \in BatchUniverse :
                    \A i \in 1..3 : IsSubSeq(b[MaskNames[i]], g[MaskNames[i]])}

NumNodes(b) == Len(b.train) + Len(b.val) + Len(b.test)

(* ------------------------------------------------------------ the network *)
\* parameter values: the network predicts class 0 everywhere, or the true label
ParamValues == {"zero", "fit"}

\* out.argmax(dim=-1) of model(...): the predicted label of every node
Forward(p, ys) == [i \in 1..Len(ys) |->
                     IF p = "zero" THEN 0 ELSE ys[i]]

(* ---------------------------------------------------------------- metrics *)
\* correct[mask].sum().item()
NumCorrect(ys, ps) == Cardinality({i \in 1..Len(ys) : ys[i] = ps[i]})

\* sklearn f1_score(..., average='macro') on non-empty inputs
ClassF1(c, ys, ps) ==
    LET TP == Cardinality({i \in 1..Len(ys) : ys[i] = c /\ ps[i] = c})
        FP == Cardinality({i \in 1..Len(ys) : ys[i] # c /\ ps[i] = c})
        FN == Cardinality({i \in 1..Len(ys) : ys[i] = c /\ ps[i] # c})
    IN Rat(2 * TP, 2 * TP + FP + FN)

F1Macro(ys, ps) ==
    LET present == {c \in Classes : \E i \in 1..Len(ys) : ys[i] = c \/ ps[i] = c}
        order == CHOOSE s \in [1..Cardinality(present) -> present] :
                    \A i, j \in 1..Cardinality(present) : i # j => s[i] # s[j]
    IN NpMean([i \in 1..Cardinality(present) |-> ClassF1(order[i], ys, ps)])

HasEmptyMask(g) == \E i \in 1..3 : Len(g[MaskNames[i]]) = 0

\* correct[mask].sum().item() / mask.sum().item() for the three masks
MaskAccs(g, p) == [i \in 1..3 |->
                     LET ys == g[MaskNames[i]]
                     IN Rat(NumCorrect(ys, Forward(p, ys)), Len(ys))]

\* f1_score(data.y[mask], pred[mask], average='macro') for the three masks
MaskF1s(g, p) == [i \in 1..3 |->
                    LET ys == g[MaskNames[i]] IN F1Macro(ys, Forward(p, ys))]

\* variant: np.mean(accs_all), the mean of the whole array, for every i
ColumnMeansWholeArray(rows) ==
    [i \in 1..3 |-> NpMean([k \in 1..(3 * Len(rows)) |->
                              rows[((k - 1) \div 3) + 1][((k - 1) % 3) + 1]])]

\* np.mean(accs_all[:, i]) for i in range(3)
ColumnMeans(rows) == [i \in 1..3 |-> NpMean([k \in 1..Len(rows) |-> rows[k][i]])]

(* ------------------------------------------------------------------ state *)
VARIABLES
    args,               \* the parsed command line
    pc,                 \* position of the driver
    error,              \* the exception that ended the run, or "none"
    data,               \* dataset[0]: the loaded graph
    loader,             \* the sampler constructed at startup, or "none"
    params,             \* model parameters
    training,           \* model.train() / model.eval() mode
    aggr,               \* aggregation mode last given to model.set_aggr
    autograd,           \* gradient buffers: stale, zeroed, forward, backward
    epoch,              \* loop counter of the epoch loop
    yielded,            \* batches the current loader pass has yielded
    batch,              \* loop variable `data` of train_sample / eval_sample
    total_examples,     \* local of train_sample
    accs_all,           \* local of eval_sample
    f1_scores_all,      \* local of eval_sample
    accs,               \* last value returned by the evaluation
    f1_scores,
    summary_accs_train,
    summary_accs_test,
    summary_f1s_train,
    summary_f1s_test,
    logged,             \* epoch numbers of the per-epoch log lines
    report,             \* the best-epoch report, <<>> until logged
    archive,            \* the summary archive, <<>> until written
    trace,              \* history: the phases entered, in order
    steps,              \* history: optimizer.step() calls so far
    epochSteps,         \* history: optimizer.step() calls of this epoch
    trainYielded,       \* history: batches yielded to this epoch's training
    unitsTotal,         \* history: sum over finished training phases of their batch count (1 if full)
    trainAggr,          \* history: aggregation mode of this epoch's training
    evalHist            \* history: what each epoch's evaluation returned

cfgVars == <<args, data, loader>>
modelVars == <<params, training, aggr, autograd>>
loopVars == <<epoch, yielded, batch, total_examples, accs_all, f1_scores_all, accs, f1_scores>>
summaryVars == <<summary_accs_train, summary_accs_test, summary_f1s_train, summary_f1s_test>>
outVars == <<logged, report, archive>>
histVars == <<trace, steps, epochSteps, trainYielded, unitsTotal, trainAggr, evalHist>>
vars == <<pc, error, cfgVars, modelVars, loopVars, summaryVars, outVars, histVars>>

DatasetNames == {"flickr", "reddit", "cora"}
SamplerNames == {"rw", "rn", "full"}

\* the flags the driver branches on; loss_norm only selects the loss formula
\* and the edge weights of the forward pass, which Forward's parameters cover
Configs == [dataset : DatasetNames, sampler : SamplerNames, epochs : 0..MaxEpochs,
            train_sample : {0, 1}, eval_sample : {0, 1}, log_interval : {0, 1, 2}]

NoBatch == [train |-> <<>>, val |-> <<>>, test |-> <<>>]

Init ==
    /\ args \in Configs
    /\ pc = "select_dataset"
    /\ error = "none"
    /\ data = NoBatch
    /\ loader = "none"
    /\ params = "unbuilt"
    /\ training = TRUE
    /\ aggr = "unset"
    /\ autograd = "stale"
    /\ epoch = 0
    /\ yielded = 0
    /\ batch = NoBatch
    /\ total_examples = 0
    /\ accs_all = <<>>
    /\ f1_scores_all = <<>>
    /\ accs = <<>>
    /\ f1_scores = <<>>
    /\ summary_accs_train = <<>>
    /\ summary_accs_test = <<>>
    /\ summary_f1s_train = <<>>
    /\ summary_f1s_test = <<>>
    /\ logged = <<>>
    /\ report = <<>>
    /\ archive = <<>>
    /\ trace = <<>>
    /\ steps = 0
    /\ epochSteps = 0
    /\ trainYielded = 0
    /\ unitsTotal = 0
    /\ trainAggr = "unset"
    /\ evalHist = <<>>

\* an unhandled exception ends the process
Raise(e) == /\ pc' = "crashed"
            /\ error' = e

(* ---------------------------------------------------------------- startup *)
\* variant: an unknown dataset name falls back to a default instead of raising
SelectDatasetDefault ==
    /\ pc = "select_dataset"
    /\ data' \in Graphs
    /\ pc' = "select_sampler"
    /\ UNCHANGED <<error, args, loader, modelVars, loopVars, summaryVars, outVars, histVars>>

SelectDataset ==
    /\ pc = "select_dataset"
    /\ IF args.dataset \in {"flickr", "reddit"}
       THEN /\ data' \in Graphs
            /\ pc' = "select_sampler"
            /\ UNCHANGED error
       ELSE /\ Raise("KeyError")
            /\ UNCHANGED data
    /\ UNCHANGED <<args, loader, modelVars, loopVars, summaryVars, outVars, histVars>>

\* variant: any other sampler name selects full-graph mode, without a sampler
SelectSamplerFullMode ==
    /\ pc = "select_sampler"
    /\ loader' = IF args.sampler \in {"rw", "rn"} THEN args.sampler ELSE "none"
    /\ pc' = "build_model"
    /\ UNCHANGED <<error, args, data, modelVars, loopVars, summaryVars, outVars, histVars>>

SelectSampler ==
    /\ pc = "select_sampler"
    /\ IF args.sampler \in {"rw", "rn"}
       THEN /\ loader' = args.sampler
            /\ pc' = "build_model"
            /\ UNCHANGED error
       ELSE /\ Raise("KeyError")
            /\ UNCHANGED loader
    /\ UNCHANGED <<args, data, modelVars, loopVars, summaryVars, outVars, histVars>>

BuildModel ==
    /\ pc = "build_model"
    /\ params' \in ParamValues
    /\ epoch' = 1
    /\ pc' = "loop"
    /\ UNCHANGED <<error, cfgVars, training, aggr, autograd, yielded, batch, total_examples,
                   accs_all, f1_scores_all, accs, f1_scores, summaryVars, outVars, histVars>>

(* ------------------------------------------------------------- epoch loop *)
\* for epoch in range(1, args.epochs + 1): another epoch, training on samples
TrainSampleEnter ==
    /\ pc = "loop"
    /\ epoch <= args.epochs
    /\ args.train_sample = 1
    /\ training' = TRUE
    /\ aggr' = "add"
    /\ total_examples' = 0
    /\ yielded' = 0
    /\ pc' = "ts_iter"
    /\ trace' = Append(trace, <<"train", epoch>>)
    /\ epochSteps' = 0
    /\ trainYielded' = 0
    /\ trainAggr' = "add"
    /\ UNCHANGED <<error, cfgVars, params, autograd, epoch, batch, accs_all, f1_scores_all,
                   accs, f1_scores, summaryVars, outVars, steps, unitsTotal, evalHist>>

\* another epoch, training on the full graph
TrainFullEnter ==
    /\ pc = "loop"
    /\ epoch <= args.epochs
    /\ args.train_sample # 1
    /\ training' = TRUE
    /\ aggr' = "mean"
    /\ pc' = "tf_zero_grad"
    /\ trace' = Append(trace, <<"train", epoch>>)
    /\ epochSteps' = 0
    /\ trainYielded' = 0
    /\ trainAggr' = "mean"
    /\ UNCHANGED <<error, cfgVars, params, autograd, loopVars, summaryVars, outVars,
                   steps, unitsTotal, evalHist>>

\* the range is exhausted: the lists become arrays
\* variant: the range stops one epoch early
LoopExitEarly ==
    /\ pc = "loop"
    /\ epoch >= args.epochs
    /\ pc' = "report"
    /\ UNCHANGED <<error, cfgVars, modelVars, loopVars, summaryVars, outVars, histVars>>

LoopExit ==
    /\ pc = "loop"
    /\ epoch > args.epochs
    /\ pc' = "report"
    /\ UNCHANGED <<error, cfgVars, modelVars, loopVars, summaryVars, outVars, histVars>>

(* ----------------------------------------------------------- train_sample *)
\* the random-walk sampler yields num_steps batches per pass
RwMayYield == loader = "rw" /\ yielded < NumSteps
RwMayStop == loader = "rw" /\ yielded = NumSteps

\* the node sampler yields some finite number of batches per pass
RnMayYield == loader = "rn" /\ yielded < MaxBatches
RnMayStop == loader = "rn"

MayYield == RwMayYield \/ RnMayYield

MayStop == RwMayStop \/ RnMayStop

TsYield ==
    /\ pc = "ts_iter"
    /\ MayYield
    /\ batch' \in BatchesOf(data)
    /\ yielded' = yielded + 1
    /\ trainYielded' = trainYielded + 1
    /\ pc' = "ts_zero_grad"
    /\ UNCHANGED <<error, cfgVars, modelVars, epoch, total_examples, accs_all, f1_scores_all,
                   accs, f1_scores, summaryVars, outVars, trace, steps, epochSteps,
                   unitsTotal, trainAggr, evalHist>>

TsZeroGrad ==
    /\ pc = "ts_zero_grad"
    /\ autograd' = "zeroed"
    /\ pc' = "ts_forward"
    /\ UNCHANGED <<error, cfgVars, params, training, aggr, loopVars, summaryVars, outVars,
                   histVars>>

\* the forward pass and the loss, with or without the sampling norms
TsForward ==
    /\ pc = "ts_forward"
    /\ autograd' = "forward"
    /\ pc' = "ts_backward"
    /\ UNCHANGED <<error, cfgVars, params, training, aggr, loopVars, summaryVars, outVars,
                   histVars>>

TsBackward ==
    /\ pc = "ts_backward"
    /\ autograd' = "backward"
    /\ pc' = "ts_step"
    /\ UNCHANGED <<error, cfgVars, params, training, aggr, loopVars, summaryVars, outVars,
                   histVars>>

\* optimizer.step() and the loss bookkeeping
\* variant: the loss is accumulated but optimizer.step() is not called
TsStepSkipped ==
    /\ pc = "ts_step"
    /\ autograd' = "stale"
    /\ total_examples' = total_examples + NumNodes(batch)
    /\ pc' = "ts_iter"
    /\ UNCHANGED <<error, cfgVars, params, training, aggr, epoch, yielded, batch, accs_all,
                   f1_scores_all, accs, f1_scores, summaryVars, outVars, histVars>>

TsStep ==
    /\ pc = "ts_step"
    /\ params' \in ParamValues
    /\ autograd' = "stale"
    /\ steps' = steps + 1
    /\ epochSteps' = epochSteps + 1
    /\ total_examples' = total_examples + NumNodes(batch)
    /\ pc' = "ts_iter"
    /\ UNCHANGED <<error, cfgVars, training, aggr, epoch, yielded, batch, accs_all,
                   f1_scores_all, accs, f1_scores, summaryVars, outVars, trace,
                   trainYielded, unitsTotal, trainAggr, evalHist>>

\* return total_loss / total_examples
TsReturn ==
    /\ pc = "ts_iter"
    /\ MayStop
    /\ IF total_examples = 0
       THEN /\ Raise("ZeroDivisionError")
            /\ UNCHANGED <<unitsTotal, yielded, batch, total_examples>>
       ELSE /\ pc' = "eval"
            /\ unitsTotal' = unitsTotal + trainYielded
            /\ yielded' = 0
            /\ batch' = NoBatch
            /\ total_examples' = 0
            /\ UNCHANGED error
    /\ UNCHANGED <<cfgVars, modelVars, epoch, accs_all, f1_scores_all, accs, f1_scores,
                   summaryVars, outVars, trace, steps, epochSteps, trainYielded, trainAggr,
                   evalHist>>

(* ------------------------------------------------------------- train_full *)
TfZeroGrad ==
    /\ pc = "tf_zero_grad"
    /\ autograd' = "zeroed"
    /\ pc' = "tf_forward"
    /\ UNCHANGED <<error, cfgVars, params, training, aggr, loopVars, summaryVars, outVars,
                   histVars>>

TfForward ==
    /\ pc = "tf_forward"
    /\ autograd' = "forward"
    /\ pc' = "tf_backward"
    /\ UNCHANGED <<error, cfgVars, params, training, aggr, loopVars, summaryVars, outVars,
                   histVars>>

TfBackward ==
    /\ pc = "tf_backward"
    /\ autograd' = "backward"
    /\ pc' = "tf_step"
    /\ UNCHANGED <<error, cfgVars, params, training, aggr, loopVars, summaryVars, outVars,
                   histVars>>

TfStep ==
    /\ pc = "tf_step"
    /\ params' \in ParamValues
    /\ autograd' = "stale"
    /\ steps' = steps + 1
    /\ epochSteps' = epochSteps + 1
    /\ unitsTotal' = unitsTotal + 1
    /\ pc' = "eval"
    /\ UNCHANGED <<error, cfgVars, training, aggr, loopVars, summaryVars, outVars, trace,
                   trainYielded, trainAggr, evalHist>>

(* ------------------------------------------------------------ eval_sample *)
EvalSampleEnter ==
    /\ pc = "eval"
    /\ args.eval_sample = 1
    /\ training' = FALSE
    /\ aggr' = "add"
    /\ accs_all' = <<>>
    /\ f1_scores_all' = <<>>
    /\ yielded' = 0
    /\ pc' = "es_iter"
    /\ trace' = Append(trace, <<"evaluate", epoch>>)
    /\ UNCHANGED <<error, cfgVars, params, autograd, epoch, batch, total_examples, accs,
                   f1_scores, summaryVars, outVars, steps, epochSteps, trainYielded,
                   unitsTotal, trainAggr, evalHist>>

\* one batch: inference, then accuracy and macro-F1 of the three masks
\* variant: the evaluation loop body also steps the optimizer
EsBatchWithStep ==
    /\ pc = "es_iter"
    /\ MayYield
    /\ \E b \in BatchesOf(data) :
          /\ ~HasEmptyMask(b)
          /\ batch' = b
          /\ accs_all' = Append(accs_all, MaskAccs(b, params))
          /\ f1_scores_all' = Append(f1_scores_all, MaskF1s(b, params))
    /\ params' \in ParamValues
    /\ yielded' = yielded + 1
    /\ UNCHANGED <<pc, error, cfgVars, training, aggr, autograd, epoch, total_examples,
                   accs, f1_scores, summaryVars, outVars, histVars>>

EsBatch ==
    /\ pc = "es_iter"
    /\ MayYield
    /\ \E b \in BatchesOf(data) :
          /\ ~HasEmptyMask(b)
          /\ batch' = b
          /\ accs_all' = Append(accs_all, MaskAccs(b, params))
          /\ f1_scores_all' = Append(f1_scores_all, MaskF1s(b, params))
    /\ yielded' = yielded + 1
    /\ UNCHANGED <<pc, error, cfgVars, modelVars, epoch, total_examples, accs,
                   f1_scores, summaryVars, outVars, histVars>>

\* one batch with an empty mask: mask.sum().item() is 0
\* variant: a batch with an empty mask is skipped
EsBatchSkipEmpty ==
    /\ pc = "es_iter"
    /\ MayYield
    /\ \E b \in BatchesOf(data) :
          /\ HasEmptyMask(b)
          /\ batch' = b
    /\ yielded' = yielded + 1
    /\ UNCHANGED <<pc, error, cfgVars, modelVars, epoch, total_examples, accs_all,
                   f1_scores_all, accs, f1_scores, summaryVars, outVars, histVars>>

EsBatchZeroDivision ==
    /\ pc = "es_iter"
    /\ MayYield
    /\ \E b \in BatchesOf(data) :
          /\ HasEmptyMask(b)
          /\ batch' = b
    /\ Raise("ZeroDivisionError")
    /\ yielded' = yielded + 1
    /\ UNCHANGED <<cfgVars, modelVars, epoch, total_examples, accs_all,
                   f1_scores_all, accs, f1_scores, summaryVars, outVars, histVars>>

\* the loader is exhausted: the column means of the per-batch values
EsReturn ==
    /\ pc = "es_iter"
    /\ MayStop
    /\ IF accs_all = <<>>
       THEN /\ Raise("IndexError")
            /\ UNCHANGED <<accs, f1_scores, evalHist, yielded, batch, accs_all,
                           f1_scores_all>>
       ELSE /\ accs' = ColumnMeans(accs_all)
            /\ f1_scores' = ColumnMeans(f1_scores_all)
            /\ evalHist' = Append(evalHist, [epoch |-> epoch, accs |-> accs',
                                             f1_scores |-> f1_scores'])
            /\ yielded' = 0
            /\ batch' = NoBatch
            /\ accs_all' = <<>>
            /\ f1_scores_all' = <<>>
            /\ pc' = "log"
            /\ UNCHANGED error
    /\ UNCHANGED <<cfgVars, modelVars, epoch, total_examples, summaryVars, outVars,
                   trace, steps, epochSteps, trainYielded, unitsTotal, trainAggr>>

(* -------------------------------------------------------------- eval_full *)
EvalFull ==
    /\ pc = "eval"
    /\ args.eval_sample # 1
    /\ ~HasEmptyMask(data)
    /\ training' = FALSE
    /\ aggr' = "mean"
    /\ accs' = MaskAccs(data, params)
    /\ f1_scores' = MaskF1s(data, params)
    /\ evalHist' = Append(evalHist, [epoch |-> epoch, accs |-> accs',
                                     f1_scores |-> f1_scores'])
    /\ trace' = Append(trace, <<"evaluate", epoch>>)
    /\ pc' = "log"
    /\ UNCHANGED <<error, cfgVars, params, autograd, epoch, yielded, batch, total_examples,
                   accs_all, f1_scores_all, summaryVars, outVars, steps, epochSteps,
                   trainYielded, unitsTotal, trainAggr>>

\* the full graph has an empty mask: mask.sum().item() is 0
EvalFullZeroDivision ==
    /\ pc = "eval"
    /\ args.eval_sample # 1
    /\ HasEmptyMask(data)
    /\ training' = FALSE
    /\ aggr' = "mean"
    /\ trace' = Append(trace, <<"evaluate", epoch>>)
    /\ Raise("ZeroDivisionError")
    /\ UNCHANGED <<cfgVars, params, autograd, loopVars, summaryVars, outVars, steps,
                   epochSteps, trainYielded, unitsTotal, trainAggr, evalHist>>

(* ------------------------------------------------------- rest of the epoch *)
\* if epoch % args.log_interval == 0: logger.info(...)
LogEpoch ==
    /\ pc = "log"
    /\ IF args.log_interval = 0
       THEN /\ Raise("ZeroDivisionError")
            /\ UNCHANGED logged
       ELSE /\ logged' = IF epoch % args.log_interval = 0
                         THEN Append(logged, epoch) ELSE logged
            /\ pc' = "append"
            /\ UNCHANGED error
    /\ UNCHANGED <<cfgVars, modelVars, loopVars, summaryVars, report, archive, histVars>>

\* the four appends, and the loop's next value
\* variant: the appends sit inside the log-interval branch
AppendSummaryWhenLogged ==
    /\ pc = "append"
    /\ IF epoch % args.log_interval = 0
       THEN /\ summary_accs_train' = Append(summary_accs_train, accs[1])
            /\ summary_f1s_train' = Append(summary_f1s_train, f1_scores[1])
            /\ summary_accs_test' = Append(summary_accs_test, accs[3])
            /\ summary_f1s_test' = Append(summary_f1s_test, f1_scores[3])
       ELSE UNCHANGED summaryVars
    /\ epoch' = epoch + 1
    /\ pc' = "loop"
    /\ UNCHANGED <<error, cfgVars, modelVars, yielded, batch, total_examples, accs_all,
                   f1_scores_all, accs, f1_scores, outVars, histVars>>

AppendSummary ==
    /\ pc = "append"
    /\ summary_accs_train' = Append(summary_accs_train, accs[1])
    /\ summary_f1s_train' = Append(summary_f1s_train, f1_scores[1])
    /\ summary_accs_test' = Append(summary_accs_test, accs[3])
    /\ summary_f1s_test' = Append(summary_f1s_test, f1_scores[3])
    /\ epoch' = epoch + 1
    /\ pc' = "loop"
    /\ UNCHANGED <<error, cfgVars, modelVars, yielded, batch, total_examples, accs_all,
                   f1_scores_all, accs, f1_scores, outVars, histVars>>

(* ----------------------------------------------------------------- summary *)
\* the two 'Best ...' lines
BestReport ==
    [best_acc |-> NpMax(summary_accs_test),
     acc_epoch |-> NpArgmax(summary_accs_test),
     acc_f1 |-> summary_f1s_test[NpArgmax(summary_accs_test) + 1],
     best_f1 |-> NpMax(summary_f1s_test),
     f1_epoch |-> NpArgmax(summary_f1s_test),
     f1_acc |-> summary_accs_test[NpArgmax(summary_f1s_test) + 1]]

Report ==
    /\ pc = "report"
    /\ IF summary_accs_test = <<>>
       THEN /\ Raise("ValueError")
            /\ UNCHANGED report
       ELSE /\ report' = <<BestReport>>
            /\ pc' = "savez"
            /\ UNCHANGED error
    /\ UNCHANGED <<cfgVars, modelVars, loopVars, summaryVars, logged, archive, histVars>>

SaveSummary ==
    /\ pc = "savez"
    /\ archive' = <<[train_acc |-> summary_accs_train, test_acc |-> summary_accs_test,
                     train_f1 |-> summary_f1s_train, test_f1 |-> summary_f1s_test]>>
    /\ pc' = "done"
    /\ UNCHANGED <<error, cfgVars, modelVars, loopVars, summaryVars, logged, report,
                   histVars>>

(* ----------------------------------------------------------- specification *)
Next ==
    \/ SelectDataset
    \/ SelectSampler
    \/ BuildModel
    \/ TrainSampleEnter
    \/ TrainFullEnter
    \/ LoopExit
    \/ TsYield
    \/ TsZeroGrad
    \/ TsForward
    \/ TsBackward
    \/ TsStep
    \/ TsReturn
    \/ TfZeroGrad
    \/ TfForward
    \/ TfBackward
    \/ TfStep
    \/ EvalSampleEnter
    \/ EsBatch
    \/ EsBatchZeroDivision
    \/ EsReturn
    \/ EvalFull
    \/ EvalFullZeroDivision
    \/ LogEpoch
    \/ AppendSummary
    \/ Report
    \/ SaveSummary

Spec == Init /\ [][Next]_vars

(* ------------------------------------------------------------------ claims *)
ValidDataset == args.dataset \in {"flickr", "reddit"}
ValidSampler == args.sampler \in {"rw", "rn"}
\* the process has ended: written its archive, or died of an exception
Terminated == pc \in {"done", "crashed"}

\* a loader pass can always continue: yield another batch or stop
PassCanContinue == pc \in {"ts_iter", "es_iter"} =>
                      \/ MayStop
                      \/ MayYield /\ BatchesOf(data) # {}

TrainPcs == {"ts_iter", "ts_zero_grad", "ts_forward", "ts_backward", "ts_step",
             "tf_zero_grad", "tf_forward", "tf_backward", "tf_step"}
SummaryPcs == {"report", "savez", "done"}

\* C1: a configuration with an unknown dataset name or an unknown sampler name
\* ends in KeyError, and no state of such a run holds a training step, an
\* evaluation step, an optimizer update or a summary archive.
C1_KeyErrorBeforeTraining ==
    (~ValidDataset \/ ~ValidSampler) =>
        /\ pc \in {"select_dataset", "select_sampler", "crashed"}
        /\ error \in {"none", "KeyError"}
        /\ pc = "crashed" <=> error = "KeyError"
        /\ trace = <<>>
        /\ steps = 0
        /\ params = "unbuilt"
        /\ evalHist = <<>>
        /\ archive = <<>>

\* C1 witness: a known dataset was loaded and the unknown sampler name then raised
C1_Witness ==
    /\ ValidDataset
    /\ ~ValidSampler
    /\ data \in Graphs
    /\ pc = "crashed"
    /\ error = "KeyError"

ExpectedTrace(n) == [i \in 1..(2 * n) |->
                       IF i % 2 = 1 THEN <<"train", (i + 1) \div 2>>
                                    ELSE <<"evaluate", i \div 2>>]

IsPrefix(s, t) == /\ Len(s) <= Len(t)
                  /\ \A i \in 1..Len(s) : s[i] = t[i]

\* the run was ended by a loader pass that yielded no batch
EmptyPassCrash ==
    /\ pc = "crashed"
    /\ \/ error = "IndexError"
       \/ trace # <<>> /\ trace[Len(trace)][1] = "train"

C2_Pre ==
    /\ ValidDataset
    /\ ~HasEmptyMask(data)
    /\ ValidSampler
    /\ args.epochs >= 1
    /\ args.log_interval >= 1

\* C2 (as stated): with a valid configuration and N >= 1 epochs the run ends
\* in the summary state after train(1), evaluate(1), ..., train(N), evaluate(N).
C2_AlwaysReachesSummary ==
    (C2_Pre /\ Terminated /\ ~EmptyPassCrash) =>
        /\ pc = "done"
        /\ trace = ExpectedTrace(args.epochs)

\* C2 (amended): the phases entered are always a prefix of train(1),
\* evaluate(1), ..., train(N), evaluate(N); a run that reaches the summary
\* states has entered exactly all of them and enters no further phase; a run
\* with a valid configuration that ends elsewhere was aborted by a division by
\* zero or an empty loader pass.
C2_AlternationUnlessAborted ==
    /\ IsPrefix(trace, ExpectedTrace(args.epochs))
    /\ pc \in TrainPcs => trace[Len(trace)] = <<"train", epoch>>
    /\ pc \in {"es_iter", "log", "append"} => trace[Len(trace)] = <<"evaluate", epoch>>
    /\ pc = "eval" => trace[Len(trace)] = <<"train", epoch>>
    /\ pc \in SummaryPcs => trace = ExpectedTrace(args.epochs)
    /\ PassCanContinue
    /\ (C2_Pre /\ pc = "crashed") => error \in {"ZeroDivisionError", "IndexError"}

\* C2 witness: two epochs ran to the summary state
C2_Witness ==
    /\ pc = "done"
    /\ args.epochs = 2
    /\ trace = <<<<"train", 1>>, <<"evaluate", 1>>, <<"train", 2>>, <<"evaluate", 2>>>>

CompletedEpochs == IF pc \in {"select_dataset", "select_sampler", "build_model"}
                   THEN 0
                   ELSE IF pc = "crashed" THEN Len(summary_accs_test) ELSE epoch - 1

\* C3: the four lists always have one entry per completed epoch, entry k being
\* the train (index 0) or test (index 2) metric the evaluation of epoch k
\* returned, whatever log_interval is; the archive of a completed run holds
\* exactly these four arrays, each of length N.
C3_SummaryArrays ==
    /\ Len(summary_accs_train) = Len(summary_accs_test)
    /\ Len(summary_f1s_train) = Len(summary_accs_test)
    /\ Len(summary_f1s_test) = Len(summary_accs_test)
    /\ pc # "crashed" => Len(summary_accs_test) = CompletedEpochs
    /\ pc = "crashed" => Len(summary_accs_test) \in {Len(evalHist), Len(evalHist) - 1}
    /\ \A k \in 1..Len(summary_accs_test) :
          /\ evalHist[k].epoch = k
          /\ summary_accs_train[k] = evalHist[k].accs[1]
          /\ summary_accs_test[k] = evalHist[k].accs[3]
          /\ summary_f1s_train[k] = evalHist[k].f1_scores[1]
          /\ summary_f1s_test[k] = evalHist[k].f1_scores[3]
    /\ pc = "done" <=> archive # <<>>
    /\ archive # <<>> =>
          /\ DOMAIN archive[1] = {"train_acc", "test_acc", "train_f1", "test_f1"}
          /\ \A f \in DOMAIN archive[1] : Len(archive[1][f]) = args.epochs
          /\ archive[1].train_acc = summary_accs_train
          /\ archive[1].test_acc = summary_accs_test
          /\ archive[1].train_f1 = summary_f1s_train
          /\ archive[1].test_f1 = summary_f1s_test

\* C3 witness: a completed run of two epochs that logged only the second one
\* and whose two epochs differ in test accuracy
C3_Witness ==
    /\ pc = "done"
    /\ args.epochs = 2
    /\ args.log_interval = 2
    /\ logged = <<2>>
    /\ archive[1].test_acc[1] # archive[1].test_acc[2]

LastPhase == IF trace = <<>> THEN "none" ELSE trace[Len(trace)][1]

\* C4 (as stated): the reported epoch of the best test accuracy (and of the
\* best test F1) is the number, in the loop's 1..N numbering, of an epoch that
\* attained the maximum, and the paired metric is that epoch's.
C4_BestEpochIsLoopNumber ==
    report # <<>> =>
        LET r == report[1] IN
        /\ r.best_acc = NpMax(summary_accs_test)
        /\ r.acc_epoch \in 1..args.epochs
        /\ evalHist[r.acc_epoch].epoch = r.acc_epoch
        /\ evalHist[r.acc_epoch].accs[3] = r.best_acc
        /\ evalHist[r.acc_epoch].f1_scores[3] = r.acc_f1
        /\ r.best_f1 = NpMax(summary_f1s_test)
        /\ r.f1_epoch \in 1..args.epochs
        /\ evalHist[r.f1_epoch].f1_scores[3] = r.best_f1
        /\ evalHist[r.f1_epoch].accs[3] = r.f1_acc

\* C5 (as stated): while and after an epoch's evaluation the aggregation mode
\* is the one that epoch's training set.
C5_EvalAggrMatchesTrain ==
    LastPhase = "evaluate" => aggr = trainAggr

\* C6 (as stated): each of the three sampler flag values, the full-graph one
\* included, is accepted at startup.
C6_ThreeSamplersAccepted ==
    (ValidDataset /\ args.sampler \in {"rw", "rn", "full"}) => error # "KeyError"

\* C6 (amended): the flag selects between two samplers, rw and rn; any other
\* value is rejected with KeyError before any phase; full-graph mode comes from
\* the train_sample / eval_sample flags, and every run that trains, on the full
\* graph too, has constructed the sampler its flag names.
C6_TwoSamplersAlwaysConstructed ==
    /\ (ValidDataset /\ ValidSampler) => error # "KeyError"
    /\ (ValidDataset /\ ~ValidSampler /\ pc # "select_dataset") =>
          pc \in {"select_sampler", "crashed"}
    /\ (ValidDataset /\ ~ValidSampler /\ pc = "crashed") => error = "KeyError"
    /\ ~ValidSampler => loader = "none" /\ trace = <<>>
    /\ pc \notin {"select_dataset", "select_sampler", "crashed"} => loader = args.sampler
    /\ trace # <<>> => loader \in {"rw", "rn"} /\ loader = args.sampler

\* C6 witness: a run that trained and evaluated on the full graph only, to the
\* end, with the random-walk sampler constructed
C6_Witness ==
    /\ pc = "done"
    /\ args.train_sample = 0
    /\ args.eval_sample = 0
    /\ args.epochs = 2
    /\ loader = "rw"

StepPcs == {"ts_step", "tf_step"}

\* C7: parameters are written only by the optimizer step of a training phase,
\* after that step's zero_grad, forward and backward and before the next
\* forward pass; no step of an evaluation phase changes them.
C7_ParamsWrittenOnlyByStep ==
    [][ /\ params' # params => pc \in StepPcs \/ pc = "build_model"
        /\ steps' # steps =>
              /\ pc \in StepPcs
              /\ LastPhase = "train"
              /\ training
              /\ autograd = "backward"
              /\ autograd' = "stale"
        /\ pc \in StepPcs => steps' = steps + 1
        /\ (autograd' = "zeroed" /\ autograd # "zeroed") => autograd = "stale"
        /\ (autograd' = "forward" /\ autograd # "forward") => autograd = "zeroed"
        /\ (autograd' = "backward" /\ autograd # "backward") => autograd = "forward"
        /\ (pc \in {"eval", "es_iter"} \/ LastPhase = "evaluate") =>
              params' = params /\ steps' = steps /\ autograd' = autograd
      ]_vars

\* C7 witness: after three updates, a sampled evaluation has gone through two
\* batches
C7_Witness ==
    /\ pc = "es_iter"
    /\ steps >= 3
    /\ Len(accs_all) >= 2
    /\ ~training

\* C8: a sampled training phase performs exactly one update per yielded batch
\* (NumSteps of them with the random-walk sampler), each after a backward pass;
\* a full-graph training phase performs exactly one; the total is the sum of
\* the per-epoch counts.
C8_UpdatesPerEpoch ==
    /\ pc = "ts_iter" => epochSteps = trainYielded
    /\ pc \in {"ts_zero_grad", "ts_forward", "ts_backward", "ts_step"} =>
          epochSteps = trainYielded - 1
    /\ pc \in {"eval", "es_iter", "log", "append"} =>
          epochSteps = IF args.train_sample = 1 THEN trainYielded ELSE 1
    /\ (pc = "eval" /\ args.train_sample = 1 /\ loader = "rw") => epochSteps = NumSteps
    /\ pc \in StepPcs => autograd = "backward"
    /\ pc \in TrainPcs => steps = unitsTotal + epochSteps
    /\ pc \notin TrainPcs => steps = unitsTotal

\* C8 witness: two epochs of node-sampled training, one of one batch and one
\* of two, ran to the end with three updates
C8_Witness ==
    /\ pc = "done"
    /\ args.train_sample = 1
    /\ loader = "rn"
    /\ args.epochs = 2
    /\ steps = 3

RECURSIVE DenProduct(_)
DenProduct(col) == IF col = <<>> THEN 1 ELSE Head(col)[2] * DenProduct(Tail(col))

RECURSIVE ScaledSum(_, _)
ScaledSum(col, d) == IF col = <<>> THEN 0
                     ELSE Head(col)[1] * (d \div Head(col)[2]) + ScaledSum(Tail(col), d)

\* m is the arithmetic mean of the rationals of col, every entry weighing the same
IsMeanOf(m, col) == LET d == DenProduct(col)
                    IN m[1] * d * Len(col) = ScaledSum(col, d) * m[2]

Column(rows, i) == [k \in 1..Len(rows) |-> rows[k][i]]

\* the predictions agree with the labels of the mask on exactly acc * size nodes
IsAccuracyOf(acc, ys, p) ==
    acc[1] * Len(ys) = acc[2] * Cardinality({j \in 1..Len(ys) : Forward(p, ys)[j] = ys[j]})

\* C9: each evaluated batch adds one row of three per-batch accuracies and
\* three per-batch F1 values (train, val, test); when the pass ends after at
\* least one batch, eval_sample returns three accuracies and three F1 values,
\* each the unweighted mean of its column, each accuracy within [0, 1].
C9_MeanOverBatches ==
    [][ /\ (pc = "es_iter" /\ pc' = "es_iter") =>
              /\ ~HasEmptyMask(batch')
              /\ Len(accs_all') = Len(accs_all) + 1
              /\ Len(f1_scores_all') = Len(accs_all')
              /\ yielded' = Len(accs_all')
              /\ \A k \in 1..Len(accs_all) :
                    accs_all'[k] = accs_all[k] /\ f1_scores_all'[k] = f1_scores_all[k]
              /\ Len(accs_all'[yielded']) = 3
              /\ Len(f1_scores_all'[yielded']) = 3
              /\ \A i \in 1..3 :
                    /\ IsAccuracyOf(accs_all'[yielded'][i], batch'[MaskNames[i]], params)
                    /\ f1_scores_all'[yielded'][i] =
                          F1Macro(batch'[MaskNames[i]], Forward(params, batch'[MaskNames[i]]))
        /\ (pc = "es_iter" /\ pc' = "log") =>
              /\ Len(accs_all) >= 1
              /\ Len(accs') = 3
              /\ Len(f1_scores') = 3
              /\ \A i \in 1..3 :
                    /\ IsMeanOf(accs'[i], Column(accs_all, i))
                    /\ IsMeanOf(f1_scores'[i], Column(f1_scores_all, i))
                    /\ 0 <= accs'[i][1]
                    /\ accs'[i][1] <= accs'[i][2]
      ]_vars

\* C9 witness: the node sampler yielded batches A and B (train masks of one
\* and two nodes) to a network that predicts class 0; the returned means are
\* 3/4, 1/2, 1/4, where pooling the nodes would give 2/3, 1/2, 1/3
C9_Witness ==
    /\ pc = "log"
    /\ args.eval_sample = 1
    /\ loader = "rn"
    /\ params = "zero"
    /\ accs = <<<<3, 4>>, <<1, 2>>, <<1, 4>>>>
    /\ f1_scores # accs

\* C10: an evaluated batch, or an evaluated full graph, with an empty mask
\* ends the run with ZeroDivisionError in that epoch: the batch adds no row
\* and is not skipped, the epoch adds no metrics, no archive is written.
C10_EmptyMaskAborts ==
    /\ (args.eval_sample = 1 /\ LastPhase = "evaluate" /\ pc \in {"es_iter", "crashed"}
        /\ HasEmptyMask(batch) /\ batch # NoBatch) =>
          /\ pc = "crashed"
          /\ error = "ZeroDivisionError"
          /\ Len(accs_all) = yielded - 1
          /\ Len(evalHist) = epoch - 1
          /\ Len(summary_accs_test) = epoch - 1
          /\ Len(summary_accs_train) = epoch - 1
          /\ report = <<>>
          /\ archive = <<>>
    /\ pc = "es_iter" => Len(accs_all) = yielded
    /\ (args.eval_sample # 1 /\ LastPhase = "evaluate" /\ HasEmptyMask(data)) =>
          /\ pc = "crashed"
          /\ error = "ZeroDivisionError"
          /\ Len(evalHist) = epoch - 1
          /\ Len(summary_accs_test) = epoch - 1
          /\ Len(summary_accs_train) = epoch - 1
          /\ report = <<>>
          /\ archive = <<>>

\* C10 witness: in the second epoch the second batch of a sampled evaluation
\* had no test node
C10_Witness ==
    /\ pc = "crashed"
    /\ error = "ZeroDivisionError"
    /\ args.eval_sample = 1
    /\ LastPhase = "evaluate"
    /\ HasEmptyMask(batch)
    /\ Len(accs_all) = 1
    /\ epoch = 2
    /\ Len(summary_accs_test) = 1

====
